---- MODULE Spec2Model ----
(***************************************************************************)
(* Account REST API service (service/routes.py).                           *)
(*                                                                         *)
(* The state is the relational table of Accounts behind the handlers.     *)
(* Every HTTP request is one atomic action: the handler runs from its     *)
(* first line to its response, and the request-scoped session is either   *)
(* committed (by Account.create/update/delete) or discarded.              *)
(*                                                                         *)
(* The Account entity and the store (service/models.py), the status codes *)
(* (service/common/status.py) and the error mapping                       *)
(* (service/common/error_handlers.py) follow sections 3, 4.1, 5 and 7 of  *)
(* the specification.                                                      *)
(***************************************************************************)
EXTENDS Integers, Sequences, FiniteSets, TLC

VARIABLES db, created, deleted, pre, req, resp

vars == <<db, created, deleted, pre, req, resp>>

----------------------------------------------------------------------------
(* Bounds *)

\* The store's id sequence is capped: at most MaxCreated rows are ever inserted.
MaxCreated == 3

----------------------------------------------------------------------------
(* HTTP status codes (service.common.status) *)

HTTP_200_OK == 200
HTTP_201_CREATED == 201
HTTP_204_NO_CONTENT == 204
HTTP_400_BAD_REQUEST == 400
HTTP_404_NOT_FOUND == 404
HTTP_415_UNSUPPORTED_MEDIA_TYPE == 415
HTTP_500_INTERNAL_SERVER_ERROR == 500

\* Python's None, where the value it replaces is a string.
None == "None"

\* Account.id before the store has assigned one (None); store ids start at 1.
NoId == 0

----------------------------------------------------------------------------
(* Characters and strings.  A path id is a sequence of characters; each    *)
(* character is named by a one-element string.  "ar3" is U+0663            *)
(* ARABIC-INDIC DIGIT THREE (category Nd), "sup2" is U+00B2 SUPERSCRIPT    *)
(* TWO (category No): str.isnumeric() accepts both, int() only the first. *)

DigitChars == <<"0", "1", "2", "3", "4", "5", "6", "7", "8", "9">>

AsciiDigits == {DigitChars[i] : i \in 1..10}

\* Characters c with c.isdecimal(): the ones int() reads as a digit.
DecimalChars == AsciiDigits \cup {"ar3"}

\* Characters c with c.isnumeric().
NumericChars == DecimalChars \cup {"sup2"}

DecimalValue(c) ==
    IF c = "ar3" THEN 3
    ELSE (CHOOSE i \in 1..10 : DigitChars[i] = c) - 1

\* str.isnumeric(): at least one character, all of them numeric.
str_isnumeric(s) == Len(s) > 0 /\ \A i \in 1..Len(s) : s[i] \in NumericChars

\* str.isdecimal(): at least one character, all of them decimal digits.
str_isdecimal(s) == Len(s) > 0 /\ \A i \in 1..Len(s) : s[i] \in DecimalChars

RECURSIVE IntValue(_)
IntValue(s) ==
    IF s = <<>> THEN 0
    ELSE IntValue(SubSeq(s, 1, Len(s) - 1)) * 10 + DecimalValue(s[Len(s)])

\* int(s) on a string without sign, blank or underscore: the value of its
\* decimal digits, ValueError when a character is no decimal digit.
int(s) ==
    IF str_isdecimal(s) THEN [ok |-> TRUE, value |-> IntValue(s)]
    ELSE [ok |-> FALSE, value |-> 0]

RECURSIVE str(_)
\* str(n) for n >= 0
str(n) ==
    IF n < 10 THEN <<DigitChars[n + 1]>>
    ELSE str(n \div 10) \o <<DigitChars[(n % 10) + 1]>>

----------------------------------------------------------------------------
(* Calendar dates: <<year, month, day>>; the wire form is YYYY-MM-DD.      *)

\* the decimal digit character of n modulo 10
D10(n) == DigitChars[(n % 10) + 1]

\* date.isoformat()
isoformat(d) ==
    << D10(d[1] \div 1000), D10(d[1] \div 100), D10(d[1] \div 10), D10(d[1]), "-",
       D10(d[2] \div 10), D10(d[2]), "-",
       D10(d[3] \div 10), D10(d[3]) >>

\* date.fromisoformat() on a well-formed YYYY-MM-DD string
fromisoformat(s) ==
    << IntValue(SubSeq(s, 1, 4)), IntValue(SubSeq(s, 6, 7)), IntValue(SubSeq(s, 9, 10)) >>

\* date.today()
Today == <<2026, 11, 4>>

----------------------------------------------------------------------------
(* Account entity (service.models.Account)                                 *)

\* Account(): no field set yet (date_joined carries its column default).
NewAccount ==
    [id |-> NoId, name |-> None, email |-> None, address |-> None,
     phone_number |-> None, date_joined |-> Today]

\* Account.serialize()
serialize(a) ==
    [id |-> a.id, name |-> a.name, email |-> a.email, address |-> a.address,
     phone_number |-> a.phone_number, date_joined |-> isoformat(a.date_joined)]

\* dict.get(key) with None as the default
Get(obj, key) == IF key \in DOMAIN obj THEN obj[key] ELSE None

\* Account.deserialize(data): assigns the fields in order and stops at the
\* first required key that is absent; never assigns id.
deserialize(a, data) ==
    IF data.kind # "object"
    THEN [ok |-> FALSE, account |-> a]
    ELSE LET o == data.obj IN
         IF "name" \notin DOMAIN o
         THEN [ok |-> FALSE, account |-> a]
         ELSE IF "email" \notin DOMAIN o
         THEN [ok |-> FALSE, account |-> [a EXCEPT !.name = o.name]]
         ELSE IF "address" \notin DOMAIN o
         THEN [ok |-> FALSE,
               account |-> [a EXCEPT !.name = o.name, !.email = o.email]]
         ELSE [ok |-> TRUE,
               account |-> [a EXCEPT
                   !.name = o.name,
                   !.email = o.email,
                   !.address = o.address,
                   !.phone_number = Get(o, "phone_number"),
                   !.date_joined =
                       IF "date_joined" \in DOMAIN o
                       THEN fromisoformat(o.date_joined)
                       ELSE Today]]

(* The store: one table of rows in insertion order, and the id sequence.   *)

Ids(table) == {table[i].id : i \in 1..Len(table)}

\* Account.find(id): the row with that id, or no row
find(d, id) ==
    LET hits == SelectSeq(d.table, LAMBDA row : row.id = id)
    IN  IF hits = <<>> THEN [found |-> FALSE, account |-> NewAccount]
        ELSE [found |-> TRUE, account |-> hits[1]]

\* Account.all()
all(d) == d.table

\* Account.create(): inserts the row under the next value of the id sequence
create(d, a) ==
    LET row == [a EXCEPT !.id = d.seq]
    IN  [db |-> [table |-> Append(d.table, row), seq |-> d.seq + 1], account |-> row]

\* Account.update(): writes the in-memory fields to the row with the same id
update(d, a) ==
    [d EXCEPT !.table =
        [i \in 1..Len(d.table) |-> IF d.table[i].id = a.id THEN a ELSE d.table[i]]]

\* Account.delete(): removes the row with the same id
delete(d, a) ==
    [d EXCEPT !.table = SelectSeq(d.table, LAMBDA row : row.id # a.id)]

----------------------------------------------------------------------------
(* Responses *)

Response(status, kind, body, location) ==
    [status |-> status, kind |-> kind, body |-> body, location |-> location]

\* abort(status, message) and the error handlers: a JSON error response
Abort(status, message) == Response(status, "error", message, None)

\* request.get_json()
get_json(r) == r.body

\* The outcome of a handler: the store it leaves and the response it sends.
Outcome(d, response) == [db |-> d, resp |-> response]

----------------------------------------------------------------------------
(* Utility functions (routes.py) *)

\* check_content_type that lets a request without the header through
check_content_type_accepts_missing(content_type, media_type) ==
    content_type = None \/ content_type = "" \/ content_type = media_type

\* check_content_type(media_type): TRUE when it returns, FALSE when it aborts
check_content_type(content_type, media_type) ==
    content_type # None /\ content_type # "" /\ content_type = media_type

\* try_parse_id(id): 400 unless id.isnumeric(); then int(id), whose
\* ValueError is not handled and ends the request with a 500.
try_parse_id(id) ==
    IF ~str_isnumeric(id)
    THEN [ok |-> FALSE, value |-> 0,
          resp |-> Abort(HTTP_400_BAD_REQUEST, "Id parameter must be numeric")]
    ELSE IF ~int(id).ok
    THEN [ok |-> FALSE, value |-> 0,
          resp |-> Abort(HTTP_500_INTERNAL_SERVER_ERROR, "Internal Server Error")]
    ELSE [ok |-> TRUE, value |-> int(id).value, resp |-> Abort(HTTP_200_OK, "")]

\* try_get_account(id): 404 unless Account.find(id) returns a row
try_get_account(d, id) ==
    IF ~find(d, id).found
    THEN [ok |-> FALSE, account |-> NewAccount,
          resp |-> Abort(HTTP_404_NOT_FOUND, "Account not found")]
    ELSE [ok |-> TRUE, account |-> find(d, id).account, resp |-> Abort(HTTP_200_OK, "")]

----------------------------------------------------------------------------
(* Request handlers (routes.py) *)

\* GET /health
health(d) == Outcome(d, Response(HTTP_200_OK, "json", [status |-> "OK"], None))

\* GET /
index(d) ==
    Outcome(d, Response(HTTP_200_OK, "json",
                        [name |-> "Account REST API Service", version |-> "1.0"], None))

\* create_accounts with account.create() called ahead of deserialize
create_accounts_create_first(d, r) ==
    IF ~check_content_type(r.content_type, "application/json")
    THEN Outcome(d, Abort(HTTP_415_UNSUPPORTED_MEDIA_TYPE,
                          "Content-Type must be application/json"))
    ELSE LET made == create(d, NewAccount)
             parsed == deserialize(made.account, get_json(r))
         IN  IF ~parsed.ok
             THEN Outcome(made.db, Abort(HTTP_400_BAD_REQUEST, "Invalid Account"))
             ELSE Outcome(update(made.db, parsed.account),
                          Response(HTTP_201_CREATED, "account",
                                   serialize(parsed.account), "/"))

\* create_accounts with account.serialize() taken ahead of account.create()
create_accounts_serialize_first(d, r) ==
    IF ~check_content_type(r.content_type, "application/json")
    THEN Outcome(d, Abort(HTTP_415_UNSUPPORTED_MEDIA_TYPE,
                          "Content-Type must be application/json"))
    ELSE LET parsed == deserialize(NewAccount, get_json(r))
         IN  IF ~parsed.ok
             THEN Outcome(d, Abort(HTTP_400_BAD_REQUEST, "Invalid Account"))
             ELSE Outcome(create(d, parsed.account).db,
                          Response(HTTP_201_CREATED, "account",
                                   serialize(parsed.account), "/"))

\* POST /accounts
create_accounts(d, r) ==
    IF ~check_content_type(r.content_type, "application/json")
    THEN Outcome(d, Abort(HTTP_415_UNSUPPORTED_MEDIA_TYPE,
                          "Content-Type must be application/json"))
    ELSE LET parsed == deserialize(NewAccount, get_json(r))
         IN  IF ~parsed.ok
             THEN Outcome(d, Abort(HTTP_400_BAD_REQUEST, "Invalid Account"))
             ELSE LET made == create(d, parsed.account)
                  IN  Outcome(made.db,
                              Response(HTTP_201_CREATED, "account",
                                       serialize(made.account), "/"))

\* list_accounts that serializes only the first row
list_accounts_first_only(d) ==
    Outcome(d, Response(HTTP_200_OK, "list",
                        [i \in 1..(IF all(d) = <<>> THEN 0 ELSE 1) |-> serialize(all(d)[i])],
                        None))

\* GET /accounts
list_accounts(d) ==
    Outcome(d, Response(HTTP_200_OK, "list",
                        [i \in 1..Len(all(d)) |-> serialize(all(d)[i])], None))

\* GET /accounts/<id>
read_account(d, id) ==
    LET parsed_id == try_parse_id(id) IN
    IF ~parsed_id.ok THEN Outcome(d, parsed_id.resp)
    ELSE LET got == try_get_account(d, parsed_id.value) IN
         IF ~got.ok THEN Outcome(d, got.resp)
         ELSE Outcome(d, Response(HTTP_200_OK, "account", serialize(got.account), None))

\* update_account that validates the body ahead of the existence check
update_account_validates_first(d, id, r) ==
    LET parsed_id == try_parse_id(id) IN
    IF ~parsed_id.ok THEN Outcome(d, parsed_id.resp)
    ELSE IF ~deserialize(NewAccount, get_json(r)).ok
    THEN Outcome(d, Abort(HTTP_400_BAD_REQUEST, "Invalid Account"))
    ELSE LET got == try_get_account(d, parsed_id.value) IN
         IF ~got.ok THEN Outcome(d, got.resp)
         ELSE LET parsed == deserialize(got.account, get_json(r))
              IN  Outcome(update(d, parsed.account),
                          Response(HTTP_200_OK, "account", serialize(parsed.account), None))

\* update_account without account.update(): the response carries the new
\* values, the row keeps the old ones
update_account_no_update(d, id, r) ==
    LET parsed_id == try_parse_id(id) IN
    IF ~parsed_id.ok THEN Outcome(d, parsed_id.resp)
    ELSE LET got == try_get_account(d, parsed_id.value) IN
         IF ~got.ok THEN Outcome(d, got.resp)
         ELSE LET parsed == deserialize(got.account, get_json(r))
              IN  IF ~parsed.ok
                  THEN Outcome(d, Abort(HTTP_400_BAD_REQUEST, "Invalid Account"))
                  ELSE Outcome(d, Response(HTTP_200_OK, "account",
                                           serialize(parsed.account), None))

\* update_account whose session is committed when deserialize fails: the
\* fields assigned before the failure reach the row
update_account_commits_partial(d, id, r) ==
    LET parsed_id == try_parse_id(id) IN
    IF ~parsed_id.ok THEN Outcome(d, parsed_id.resp)
    ELSE LET got == try_get_account(d, parsed_id.value) IN
         IF ~got.ok THEN Outcome(d, got.resp)
         ELSE LET parsed == deserialize(got.account, get_json(r))
              IN  IF ~parsed.ok
                  THEN Outcome(update(d, parsed.account),
                               Abort(HTTP_400_BAD_REQUEST, "Invalid Account"))
                  ELSE Outcome(update(d, parsed.account),
                               Response(HTTP_200_OK, "account",
                                        serialize(parsed.account), None))

\* PUT /accounts/<id>.  When deserialize raises, the handler ends with the
\* 400 of the DataValidationError handler and the session is discarded with
\* the request, so the store keeps the row as it was.
update_account(d, id, r) ==
    LET parsed_id == try_parse_id(id) IN
    IF ~parsed_id.ok THEN Outcome(d, parsed_id.resp)
    ELSE LET got == try_get_account(d, parsed_id.value) IN
         IF ~got.ok THEN Outcome(d, got.resp)
         ELSE LET parsed == deserialize(got.account, get_json(r))
              IN  IF ~parsed.ok
                  THEN Outcome(d, Abort(HTTP_400_BAD_REQUEST, "Invalid Account"))
                  ELSE Outcome(update(d, parsed.account),
                               Response(HTTP_200_OK, "account",
                                        serialize(parsed.account), None))

\* delete_account that answers 204 and leaves the row in place
delete_account_keeps_row(d, id) ==
    LET parsed_id == try_parse_id(id) IN
    IF ~parsed_id.ok THEN Outcome(d, parsed_id.resp)
    ELSE LET got == try_get_account(d, parsed_id.value) IN
         IF ~got.ok THEN Outcome(d, got.resp)
         ELSE Outcome(d, Response(HTTP_204_NO_CONTENT, "empty", "", None))

\* delete_account that empties the table
delete_account_deletes_all(d, id) ==
    LET parsed_id == try_parse_id(id) IN
    IF ~parsed_id.ok THEN Outcome(d, parsed_id.resp)
    ELSE LET got == try_get_account(d, parsed_id.value) IN
         IF ~got.ok THEN Outcome(d, got.resp)
         ELSE Outcome([d EXCEPT !.table = <<>>],
                      Response(HTTP_204_NO_CONTENT, "empty", "", None))

\* DELETE /accounts/<id>
delete_account(d, id) ==
    LET parsed_id == try_parse_id(id) IN
    IF ~parsed_id.ok THEN Outcome(d, parsed_id.resp)
    ELSE LET got == try_get_account(d, parsed_id.value) IN
         IF ~got.ok THEN Outcome(d, got.resp)
         ELSE Outcome(delete(d, got.account),
                      Response(HTTP_204_NO_CONTENT, "empty", "", None))
----------------------------------------------------------------------------
(* Requests the clients send *)

PathIds ==
    { <<"1">>, <<"2">>, <<"3">>, <<"4">>, <<"0", "2">>, <<"ar3">>,
      <<"sup2">>, <<"1", "sup2">>, <<"s", "a", "m", "p", "l", "e">>, <<"-", "1">> }

ContentTypes == {None, "application/json", "test/html", "application/json; charset=utf-8"}

NoBody == [kind |-> "none"]

JsonObject(o) == [kind |-> "object", obj |-> o]

ValidPayloads ==
    { JsonObject([id |-> 1, name |-> "Other Name", email |-> "other@email.com",
                  address |-> "other address", phone_number |-> "0911111",
                  date_joined |-> <<"1", "9", "9", "9", "-", "0", "1", "-", "0", "1">>]),
      JsonObject([name |-> "B", email |-> "b@x.com", address |-> "addr"]) }

InvalidBodies ==
    { NoBody,
      [kind |-> "array"],
      JsonObject([name |-> "not enough data"]),
      JsonObject([name |-> "C", email |-> "c@x.com", phone_number |-> "555"]) }

Bodies == ValidPayloads \cup InvalidBodies

Request(method, route, id, content_type, body) ==
    [method |-> method, route |-> route, id |-> id,
     content_type |-> content_type, body |-> body]

\* The test client sets the JSON content type exactly when it sends a body.
BodyContentType(body) == IF body = NoBody THEN None ELSE "application/json"

----------------------------------------------------------------------------
(* State machine *)

Init ==
    /\ db = [table |-> <<>>, seq |-> 1]
    /\ created = {}
    /\ deleted = {}
    /\ pre = [db |-> [table |-> <<>>, seq |-> 1], created |-> {}, deleted |-> {}]
    /\ req = Request("NONE", "", <<>>, None, NoBody)
    /\ resp = Response(0, "empty", "", None)

\* One request served: the handler's outcome becomes the state; created and
\* deleted record the ids the clients saw in 201 and 204 responses.
Serve(r, out) ==
    /\ pre' = [db |-> db, created |-> created, deleted |-> deleted]
    /\ req' = r
    /\ resp' = out.resp
    /\ db' = out.db
    /\ created' = IF r.method = "POST" /\ out.resp.status = HTTP_201_CREATED
                  THEN created \cup {out.resp.body.id}
                  ELSE created
    /\ deleted' = IF r.method = "DELETE" /\ out.resp.status = HTTP_204_NO_CONTENT
                  THEN deleted \cup {[id |-> try_parse_id(r.id).value, seq |-> db.seq]}
                  ELSE deleted

Health == Serve(Request("GET", "/health", <<>>, None, NoBody), health(db))

Index == Serve(Request("GET", "/", <<>>, None, NoBody), index(db))

CreateAccounts ==
    \E ct \in ContentTypes, body \in Bodies :
        LET r == Request("POST", "/accounts", <<>>, ct, body)
        IN  /\ create_accounts(db, r).db.seq <= MaxCreated + 1
            /\ Serve(r, create_accounts(db, r))

ListAccounts == Serve(Request("GET", "/accounts", <<>>, None, NoBody), list_accounts(db))

ReadAccount ==
    \E id \in PathIds :
        Serve(Request("GET", "/accounts/<id>", id, None, NoBody), read_account(db, id))

UpdateAccount ==
    \E id \in PathIds, body \in Bodies :
        LET r == Request("PUT", "/accounts/<id>", id, BodyContentType(body), body)
        IN  Serve(r, update_account(db, id, r))

DeleteAccount ==
    \E id \in PathIds :
        Serve(Request("DELETE", "/accounts/<id>", id, None, NoBody), delete_account(db, id))

Next ==
    \/ Health
    \/ Index
    \/ CreateAccounts
    \/ ListAccounts
    \/ ReadAccount
    \/ UpdateAccount
    \/ DeleteAccount

Spec == Init /\ [][Next]_vars
----------------------------------------------------------------------------
(* Vocabulary of the properties.  req and resp are the last request and    *)
(* its response, pre the store and the history right before it.           *)

OnCollection(m) == req.method = m /\ req.route = "/accounts"

OnItem(m) == req.method = m /\ req.route = "/accounts/<id>"

OnAnyItem == OnItem("GET") \/ OnItem("PUT") \/ OnItem("DELETE")

\* The integer the path id of the last request denotes, when it denotes one.
PathIsInteger == try_parse_id(req.id).ok

PathInteger == try_parse_id(req.id).value

DeletedIds(history) == {x.id : x \in history}

ListedIds(body) == {body[i].id : i \in 1..Len(body)}

\* A body that is not an object or lacks a required field.
BodyInvalid(body) ==
    \/ body.kind # "object"
    \/ ~({"name", "email", "address"} \subseteq DOMAIN body.obj)

RowOf(table, id) == CHOOSE row \in {table[i] : i \in 1..Len(table)} : row.id = id

OtherRows(table, id) == SelectSeq(table, LAMBDA row : row.id # id)

----------------------------------------------------------------------------
\* C1: GET /accounts answers 200 with a list that holds exactly one entry
\* for each id handed out by a 201 create and not since removed by a 204
\* delete, whatever requests came before.
C1_ListIsCreatedMinusDeleted ==
    OnCollection("GET") =>
        /\ resp.status = HTTP_200_OK
        /\ ListedIds(resp.body) = created \ DeletedIds(deleted)
        /\ Len(resp.body) = Cardinality(created \ DeletedIds(deleted))

\* A listing of a store that has seen creates and a delete and still holds rows.
C1_Witness ==
    /\ OnCollection("GET")
    /\ Cardinality(created) >= 2
    /\ deleted # {}
    /\ Len(resp.body) >= 1

\* C2: once DELETE /accounts/X has answered 204, every later GET, PUT or
\* DELETE on X answers 404, whatever happened in between.
C2_DeletedStaysGone ==
    (OnAnyItem /\ PathIsInteger /\ PathInteger \in DeletedIds(pre.deleted)) =>
        resp.status = HTTP_404_NOT_FOUND

\* A PUT with a valid body on a deleted id, after a later create.
C2_Witness ==
    /\ OnItem("PUT")
    /\ PathIsInteger
    /\ req.body \in ValidPayloads
    /\ \E x \in pre.deleted : x.id = PathInteger /\ pre.db.seq > x.seq
    /\ pre.db.table # <<>>
    /\ resp.status = HTTP_404_NOT_FOUND

\* C3: a path id that is not made of decimal digits only is answered 400
\* "Id parameter must be numeric" with the store untouched; a path id made
\* of decimal digits only is parsed to its integer value.
C3_NonDigitIdIs400 ==
    OnAnyItem =>
        IF ~str_isdecimal(req.id)
        THEN /\ resp.status = HTTP_400_BAD_REQUEST
             /\ resp.body = "Id parameter must be numeric"
             /\ db = pre.db
        ELSE /\ PathIsInteger
             /\ PathInteger = IntValue(req.id)

\* C4: GET, PUT and DELETE on an integer id that no persisted Account has
\* answer 404 and leave the store unchanged, for PUT with any body.
C4_UnknownIdIs404 ==
    (OnAnyItem /\ PathIsInteger /\ PathInteger \notin Ids(pre.db.table)) =>
        /\ resp.status = HTTP_404_NOT_FOUND
        /\ db = pre.db

\* A PUT with an invalid body on an unknown id of a non-empty store.
C4_Witness ==
    /\ OnItem("PUT")
    /\ PathIsInteger
    /\ PathInteger \notin Ids(pre.db.table)
    /\ pre.db.table # <<>>
    /\ BodyInvalid(req.body)
    /\ resp.status = HTTP_404_NOT_FOUND

\* C5: POST /accounts without the Content-Type application/json answers 415
\* and creates nothing, whatever the body.
C5_WrongContentTypeIs415 ==
    (OnCollection("POST") /\ req.content_type # "application/json") =>
        /\ resp.status = HTTP_415_UNSUPPORTED_MEDIA_TYPE
        /\ db = pre.db
        /\ created = pre.created

\* A valid payload posted without any Content-Type header.
C5_Witness ==
    /\ OnCollection("POST")
    /\ req.content_type = None
    /\ req.body \in ValidPayloads
    /\ resp.status = HTTP_415_UNSUPPORTED_MEDIA_TYPE

\* C6: a valid payload posted as application/json answers 201 with a
\* Location header and a body that carries the payload's fields and an id no
\* persisted Account had; GET on that id returns the same values; and the
\* ids of the persisted Accounts are pairwise distinct in every state.
C6_CreateRoundTrip ==
    /\ \A i, j \in 1..Len(db.table) : db.table[i].id = db.table[j].id => i = j
    /\ (OnCollection("POST") /\ req.content_type = "application/json"
            /\ ~BodyInvalid(req.body)) =>
          LET o == req.body.obj
              b == resp.body
          IN  /\ resp.status = HTTP_201_CREATED
              /\ resp.location # None
              /\ b.name = o.name
              /\ b.email = o.email
              /\ b.address = o.address
              /\ b.phone_number = (IF "phone_number" \in DOMAIN o
                                   THEN o.phone_number ELSE None)
              /\ ("date_joined" \in DOMAIN o => b.date_joined = o.date_joined)
              /\ b.id \notin Ids(pre.db.table)
              /\ read_account(db, str(b.id)).resp
                     = Response(HTTP_200_OK, "account", b, None)

\* A create whose payload names the id of a persisted Account.
C6_Witness ==
    /\ OnCollection("POST")
    /\ resp.status = HTTP_201_CREATED
    /\ "id" \in DOMAIN req.body.obj
    /\ req.body.obj.id \in Ids(pre.db.table)
    /\ "date_joined" \in DOMAIN req.body.obj
    /\ resp.body.id # req.body.obj.id

\* C7: PUT with a valid body on a persisted Account answers 200 with the
\* serialized result, replaces every mutable field by the body's value (an
\* absent phone_number by null, an absent date_joined by today), keeps the
\* id of the path even when the body names another, and GET on the id
\* returns the new values.
C7_UpdateReplacesFields ==
    (OnItem("PUT") /\ PathIsInteger /\ PathInteger \in Ids(pre.db.table)
        /\ ~BodyInvalid(req.body)) =>
          LET o == req.body.obj
              b == resp.body
          IN  /\ resp.status = HTTP_200_OK
              /\ b.id = PathInteger
              /\ b.name = o.name
              /\ b.email = o.email
              /\ b.address = o.address
              /\ b.phone_number = (IF "phone_number" \in DOMAIN o
                                   THEN o.phone_number ELSE None)
              /\ b.date_joined = (IF "date_joined" \in DOMAIN o
                                  THEN o.date_joined ELSE isoformat(Today))
              /\ Ids(db.table) = Ids(pre.db.table)
              /\ read_account(db, req.id).resp
                     = Response(HTTP_200_OK, "account", b, None)

\* An update that changes every field, with a body that names another id.
C7_Witness ==
    /\ OnItem("PUT")
    /\ resp.status = HTTP_200_OK
    /\ "id" \in DOMAIN req.body.obj
    /\ req.body.obj.id # PathInteger
    /\ LET old == serialize(RowOf(pre.db.table, PathInteger))
       IN  /\ old.name # resp.body.name
           /\ old.email # resp.body.email
           /\ old.address # resp.body.address
           /\ old.phone_number # resp.body.phone_number
           /\ old.date_joined # resp.body.date_joined

\* C8: POST as application/json with a body that is not an object or lacks
\* a required field answers 400 and leaves the persisted Accounts as they were.
C8_BadCreateIs400 ==
    (OnCollection("POST") /\ req.content_type = "application/json"
        /\ BodyInvalid(req.body)) =>
          /\ resp.status = HTTP_400_BAD_REQUEST
          /\ db.table = pre.db.table
          /\ created = pre.created

\* The payload {"name": "not enough data"} posted to a non-empty store.
C8_Witness ==
    /\ OnCollection("POST")
    /\ req.content_type = "application/json"
    /\ req.body = JsonObject([name |-> "not enough data"])
    /\ pre.db.table # <<>>
    /\ resp.status = HTTP_400_BAD_REQUEST

\* C9: PUT on a persisted Account with a missing or invalid body answers 400
\* and the persisted Account keeps every field value it had, also the
\* fields deserialize assigned in memory before it failed.
C9_BadUpdateKeepsAccount ==
    (OnItem("PUT") /\ PathIsInteger /\ PathInteger \in Ids(pre.db.table)
        /\ BodyInvalid(req.body)) =>
          /\ resp.status = HTTP_400_BAD_REQUEST
          /\ db = pre.db

\* A failed update in which deserialize had assigned a new name and email.
C9_Witness ==
    /\ OnItem("PUT")
    /\ PathIsInteger
    /\ PathInteger \in Ids(pre.db.table)
    /\ BodyInvalid(req.body)
    /\ LET old == RowOf(pre.db.table, PathInteger)
           new == deserialize(old, get_json(req)).account
       IN  old.name # new.name /\ old.email # new.email
    /\ resp.status = HTTP_400_BAD_REQUEST

\* C10: a GET changes nothing; PUT and DELETE on /accounts/X leave every
\* Account with another id as it was; a 201 create appends one Account and
\* changes no existing one.
C10_Frame ==
    /\ req.method = "GET" => db = pre.db
    /\ (OnItem("PUT") \/ OnItem("DELETE")) =>
          /\ db.seq = pre.db.seq
          /\ IF PathIsInteger
             THEN OtherRows(db.table, PathInteger) = OtherRows(pre.db.table, PathInteger)
             ELSE db.table = pre.db.table
    /\ (OnCollection("POST") /\ resp.status = HTTP_201_CREATED) =>
          /\ Len(db.table) = Len(pre.db.table) + 1
          /\ SubSeq(db.table, 1, Len(pre.db.table)) = pre.db.table

\* A successful delete in a store that holds other Accounts as well.
C10_Witness ==
    /\ OnItem("DELETE")
    /\ resp.status = HTTP_204_NO_CONTENT
    /\ Len(pre.db.table) >= 3
    /\ Len(db.table) = 2
====
